---- MODULE Spec2Model ----
(***************************************************************************)
(* Model of src/disk.rs of gpt-toolbox: the LogicalBlockSize value type,   *)
(* its conversions, and the get_block_size device probe.                   *)
(*                                                                         *)
(* Machine integers keep their width.  A u64 is a sequence of four 16-bit  *)
(* limbs, least significant first; a u32 is a sequence of two.  A cast     *)
(* between widths drops or appends high limbs, as the `as` cast does.      *)
(***************************************************************************)
EXTENDS Integers, Sequences, FiniteSets, TLC

\* ------------------------------------------------------------------------
\* Fixed-width unsigned integers
\* ------------------------------------------------------------------------

\* One limb holds 16 bits.
Base == 2^16

\* Number of limbs of a w-bit unsigned integer.
Limbs(w) == w \div 16

\* The w-bit unsigned integer of a small natural n (n < 2^31).
RECURSIVE UInt(_, _)
UInt(n, w) ==
    IF w = 0 THEN << >> ELSE << n % Base >> \o UInt(n \div Base, w - 16)

\* The u64 / u32 of a small natural.
U64(n) == UInt(n, 64)
U32(n) == UInt(n, 32)

\* x < y for two unsigned integers of the same width (most significant
\* limb decides first).
RECURSIVE ULess(_, _)
ULess(x, y) ==
    IF Len(x) = 0 THEN FALSE
    ELSE LET n == Len(x) IN
         IF x[n] # y[n] THEN x[n] < y[n]
         ELSE ULess(SubSeq(x, 1, n - 1), SubSeq(y, 1, n - 1))

ULeq(x, y) == x = y \/ ULess(x, y)

\* x * k + c for a small k and c (k, c <= 10), wrapping at the width of x.
RECURSIVE UMulAdd(_, _, _)
UMulAdd(x, k, c) ==
    IF Len(x) = 0 THEN << >>
    ELSE LET cur == x[1] * k + c IN
         << cur % Base >> \o UMulAdd(Tail(x), k, cur \div Base)

\* Quotient and remainder of x by 10: long division from the top limb.
\* DivMod10(x, r) divides r * 2^(16 * Len(x)) + x and returns <<quotient, rem>>.
RECURSIVE DivMod10(_, _)
DivMod10(x, r) ==
    IF Len(x) = 0 THEN << << >>, r >>
    ELSE LET n   == Len(x)
             cur == r * Base + x[n]
             low == DivMod10(SubSeq(x, 1, n - 1), cur % 10)
         IN  << low[1] \o << cur \div 10 >>, low[2] >>

IsZero(x) == \A i \in 1..Len(x) : x[i] = 0

\* `x as u64` for an unsigned x of at most 64 bits: zero extension.
RECURSIVE WidenTo(_, _)
WidenTo(x, w) == IF Len(x) >= Limbs(w) THEN x ELSE WidenTo(x \o << 0 >>, w)

\* `x as uW` for a u64 x: the low W bits are kept, the rest are dropped.
TruncateTo(x, w) == SubSeq(x, 1, Limbs(w))

\* u64::pow(k, e) for a small k (wrapping arithmetic never wraps here).
RECURSIVE U64Pow(_, _)
U64Pow(k, e) == IF e = 0 THEN U64(1) ELSE UMulAdd(U64Pow(k, e - 1), k, 0)

\* The decimal digits of x, most significant first, as `{}` formats an
\* unsigned integer: "0" for zero, no leading zeros otherwise.
RECURSIVE DecimalDigits(_)
DecimalDigits(x) ==
    IF IsZero(x) THEN << >>
    ELSE LET qr == DivMod10(x, 0) IN DecimalDigits(qr[1]) \o << qr[2] >>

FormatDecimal(x) == IF IsZero(x) THEN << 0 >> ELSE DecimalDigits(x)


\* ------------------------------------------------------------------------
\* LogicalBlockSize and its conversions
\* ------------------------------------------------------------------------

\* pub const MAX_SECTOR_SIZE: u64 = u64::pow(2,32)
MAX_SECTOR_SIZE == U64Pow(2, 32)

\* enum LogicalBlockSize { Lb512, Lb4096, Other(u64) }: the variants are
\* public, so any of them can be written down by a caller.
Lb512 == [variant |-> "Lb512"]
Lb4096 == [variant |-> "Lb4096"]
Other(b) == [variant |-> "Other", block_size |-> b]

\* pub const DEFAULT_SECTOR_SIZE: LogicalBlockSize = LogicalBlockSize::Lb512
DEFAULT_SECTOR_SIZE == Lb512

\* #[derive(PartialEq, Eq)]: same variant and same payload.
DerivedEq(a, b) ==
    /\ a.variant = b.variant
    /\ a.variant = "Other" => a.block_size = b.block_size

VARIABLES
    target_os,            \* platform family the crate is built for
    target_pointer_width, \* width of usize on the build target
    held,                 \* LogicalBlockSize values a caller holds, with their origin
    call,                 \* the last call of a conversion: operation, argument, result
    pc,                   \* per thread: position inside get_block_size
    opened,               \* per thread: whether File::open succeeded in this invocation
    fd,                   \* per thread: raw descriptor of `file`
    openFds,              \* descriptors open in the process
    block_size,           \* per thread: the local `block_size: u64`
    result,               \* per thread: the local `result` (ioctl status)
    errno,                \* per thread: thread-local errno
    ret,                  \* per thread: value returned by the invocation
    nOpen,                \* per thread: opens performed by the current invocation
    nIoctl                \* per thread: control queries issued by the current invocation

valueVars == << held, call >>
probeVars == << pc, opened, fd, openFds, block_size, result, errno, ret, nOpen, nIoctl >>
vars == << target_os, target_pointer_width, held, call, pc, opened, fd, openFds,
           block_size, result, errno, ret, nOpen, nIoctl >>

\* LogicalBlockSize::as_usize: `*block_size as usize` keeps the low
\* target_pointer_width bits.
as_usize(self) ==
    IF self.variant = "Lb512" THEN UInt(512, target_pointer_width)
    ELSE IF self.variant = "Lb4096" THEN UInt(4096, target_pointer_width)
    ELSE TruncateTo(self.block_size, target_pointer_width)

\* LogicalBlockSize::as_u64
as_u64(self) ==
    IF self.variant = "Lb512" THEN U64(512)
    ELSE IF self.variant = "Lb4096" THEN U64(4096)
    ELSE self.block_size

\* impl From<LogicalBlockSize> for u64
u64_from(lb) == as_u64(lb)

\* impl From<LogicalBlockSize> for usize
usize_from(lb) == as_usize(lb)

\* Result values.
Ok(v) == [tag |-> "Ok", val |-> v]
Err(e) == [tag |-> "Err", err |-> e]

\* io::Error::new(io::ErrorKind::InvalidInput,
\*     format!("Logical block size {} is NOT in the range 512B-4GB", block_size))
InvalidInputError(bs) ==
    [kind |-> "InvalidInput",
     message |-> << "Logical block size ", FormatDecimal(bs),
                    " is NOT in the range 512B-4GB" >>]

\* The pattern 512..=MAX_SECTOR_SIZE.
InPattern(bs) == ULeq(U64(512), bs) /\ ULeq(bs, MAX_SECTOR_SIZE)

\* A range pattern that leaves its upper end out (512..MAX_SECTOR_SIZE).
try_from_exclusive(bs) ==
    IF bs = U64(512) THEN Ok(Lb512)
    ELSE IF bs = U64(4096) THEN Ok(Lb4096)
    ELSE IF ULeq(U64(512), bs) /\ ULess(bs, MAX_SECTOR_SIZE) THEN Ok(Other(bs))
    ELSE Err(InvalidInputError(bs))

\* A constructor that clamps a small value up to 512 instead of refusing it.
try_from_clamping(bs) ==
    IF bs = U64(512) \/ ULess(bs, U64(512)) THEN Ok(Lb512)
    ELSE IF bs = U64(4096) THEN Ok(Lb4096)
    ELSE IF InPattern(bs) THEN Ok(Other(bs))
    ELSE Err(InvalidInputError(bs))

\* impl TryFrom<u64> for LogicalBlockSize: the arms are tried in order.
try_from(bs) ==
    IF bs = U64(512) THEN Ok(Lb512)
    ELSE IF bs = U64(4096) THEN Ok(Lb4096)
    ELSE IF InPattern(bs) THEN Ok(Other(bs))
    ELSE Err(InvalidInputError(bs))

\* impl fmt::Display for LogicalBlockSize
fmt(self) ==
    IF self.variant = "Lb512" THEN << 5, 1, 2 >>
    ELSE IF self.variant = "Lb4096" THEN << 4, 0, 9, 6 >>
    ELSE FormatDecimal(self.block_size)

\* ------------------------------------------------------------------------
\* Callers of the value type
\* ------------------------------------------------------------------------

\* Places where a caller keeps a LogicalBlockSize.
Slots == {1, 2}

\* u64 inputs handed to try_from: both ends of the accepted range, their
\* neighbours, and the extremes of u64.
Inputs ==
    { U64(0), U64(256), U64(511), U64(512), U64(513), U64(4096), U64(7000),
      U64(8192), << 65535, 65535, 0, 0 >>, MAX_SECTOR_SIZE,
      UMulAdd(MAX_SECTOR_SIZE, 1, 1), << 65535, 65535, 65535, 65535 >> }

\* Values a caller writes down with the enum's public variants.
Literals == { Lb4096, Other(U64(512)), Other(U64(4096)), Other(U64(0)) }

Held(origin, v) == [origin |-> origin, val |-> v]

\* LogicalBlockSize::try_from(u), the value kept on success.
TryFromCall(s, u) ==
    LET r == try_from(u) IN
    /\ call' = [op |-> "try_from", arg |-> u, out |-> r]
    /\ held' = IF r.tag = "Ok" THEN [held EXCEPT ![s] = Held("try_from", r.val)]
               ELSE held
    /\ UNCHANGED << target_os, target_pointer_width, probeVars >>

\* A caller builds a value from a variant directly.
Construct(s, v) ==
    /\ held' = [held EXCEPT ![s] = Held("literal", v)]
    /\ UNCHANGED << call, target_os, target_pointer_width, probeVars >>

\* A caller takes DEFAULT_SECTOR_SIZE.
UseDefault(s) ==
    /\ held' = [held EXCEPT ![s] = Held("const", DEFAULT_SECTOR_SIZE)]
    /\ UNCHANGED << call, target_os, target_pointer_width, probeVars >>

AsUsizeCall(s) ==
    /\ call' = [op |-> "as_usize", arg |-> held[s].val, out |-> as_usize(held[s].val)]
    /\ UNCHANGED << held, target_os, target_pointer_width, probeVars >>

AsU64Call(s) ==
    /\ call' = [op |-> "as_u64", arg |-> held[s].val, out |-> as_u64(held[s].val)]
    /\ UNCHANGED << held, target_os, target_pointer_width, probeVars >>

U64FromCall(s) ==
    /\ call' = [op |-> "u64_from", arg |-> held[s].val, out |-> u64_from(held[s].val)]
    /\ UNCHANGED << held, target_os, target_pointer_width, probeVars >>

UsizeFromCall(s) ==
    /\ call' = [op |-> "usize_from", arg |-> held[s].val, out |-> usize_from(held[s].val)]
    /\ UNCHANGED << held, target_os, target_pointer_width, probeVars >>

FmtCall(s) ==
    /\ call' = [op |-> "fmt", arg |-> held[s].val, out |-> fmt(held[s].val)]
    /\ UNCHANGED << held, target_os, target_pointer_width, probeVars >>

\* held[1] == held[2]
EqCall ==
    /\ call' = [op |-> "eq", arg |-> << held[1].val, held[2].val >>,
                out |-> DerivedEq(held[1].val, held[2].val)]
    /\ UNCHANGED << held, target_os, target_pointer_width, probeVars >>

\* ------------------------------------------------------------------------
\* get_block_size
\* ------------------------------------------------------------------------

\* Threads calling get_block_size concurrently.
NumThreads == 2
Threads == 1..NumThreads

\* The four strategies the cfg attributes select between: linux, macos,
\* the BSD family (dragonfly, freebsd, openbsd, netbsd), solaris/illumos.
OsFamilies == { "linux", "macos", "bsd", "solaris" }

\* Error codes File::open and ioctl leave in errno when they fail.
OpenErrnos == { "ENOENT" }
IoctlErrnos == { "ENOTTY" }

\* Byte counts a driver reports through a 64-bit and a 32-bit buffer.
WideAnswers ==
    { U64(0), U64(256), U64(512), U64(4096), U64(8192), MAX_SECTOR_SIZE,
      UMulAdd(MAX_SECTOR_SIZE, 1, 1) }
NarrowAnswers ==
    { U32(0), U32(256), U32(512), U32(4096), U32(8192), << 65535, 65535 >> }

\* GptError::Io(io::Error) carrying an OS error code.
IoError(e) == [kind |-> "Io", errno |-> e]

\* The descriptor the kernel hands out: the lowest one not in use.
LowestFree(fds) ==
    CHOOSE f \in 3..(3 + Cardinality(fds)) :
        f \notin fds /\ \A g \in 3..(f - 1) : g \in fds

\* A match that has lost its 4096 arm.
BlockSizeMatchNo4096(bs) ==
    IF bs = U64(512) THEN Lb512 ELSE Other(bs)

\* The final match of get_block_size on the local block_size.
BlockSizeMatch(bs) ==
    IF bs = U64(512) THEN Lb512
    ELSE IF bs = U64(4096) THEN Lb4096
    ELSE Other(bs)

\* A return that never looks at the ioctl status.
ReturnValueUnchecked(res, bs, e) == Ok(BlockSizeMatch(bs))

\* What get_block_size returns once the query is done: res is the ioctl
\* status, bs the local block_size, e the thread's errno (Errno::last()).
ReturnValue(res, bs, e) ==
    IF res = -1 THEN Err(IoError(e)) ELSE Ok(BlockSizeMatch(bs))

\* A handle that the early error return forgets to close.
FdsAfterReturnLeaky(res, fds, f) == IF res = -1 THEN fds ELSE fds \ { f }

\* Descriptors open after get_block_size returns: `file` goes out of scope
\* on the early return and at the end of the function alike.
FdsAfterReturn(res, fds, f) == fds \ { f }

\* A query that is issued again after it failed.
NextAfterQueryRetry(res) == IF res = -1 THEN "opened" ELSE "queried"

\* Where control goes after the unsafe block: the status check, whatever
\* the status was.
NextAfterQuery(res) == "queried"

\* let file = fs::File::open(diskpath)?; let fd = file.as_raw_fd();
\* let mut block_size: u64 = 0;
Open(t) ==
    /\ pc[t] \in { "idle", "returned" }
    /\ nOpen' = [nOpen EXCEPT ![t] = 1]
    /\ nIoctl' = [nIoctl EXCEPT ![t] = 0]
    /\ block_size' = [block_size EXCEPT ![t] = U64(0)]
    /\ result' = [result EXCEPT ![t] = 0]
    /\ \/ LET f == LowestFree(openFds) IN
          /\ fd' = [fd EXCEPT ![t] = f]
          /\ openFds' = openFds \cup { f }
          /\ opened' = [opened EXCEPT ![t] = TRUE]
          /\ ret' = [ret EXCEPT ![t] = [tag |-> "None"]]
          /\ pc' = [pc EXCEPT ![t] = "opened"]
          /\ UNCHANGED errno
       \/ \E e \in OpenErrnos :
          /\ errno' = [errno EXCEPT ![t] = e]
          /\ opened' = [opened EXCEPT ![t] = FALSE]
          /\ ret' = [ret EXCEPT ![t] = Err(IoError(e))]
          /\ pc' = [pc EXCEPT ![t] = "returned"]
          /\ UNCHANGED << fd, openFds >>
    /\ UNCHANGED << target_os, target_pointer_width, valueVars >>

\* The thread's state after one ioctl with status res that left bs in
\* block_size and, on failure, e in errno.
Queried(t, res, bs, e) ==
    /\ pc[t] = "opened"
    /\ result' = [result EXCEPT ![t] = res]
    /\ block_size' = [block_size EXCEPT ![t] = bs]
    /\ errno' = [errno EXCEPT ![t] = e]
    /\ nIoctl' = [nIoctl EXCEPT ![t] = nIoctl[t] + 1]
    /\ pc' = [pc EXCEPT ![t] = NextAfterQuery(res)]
    /\ UNCHANGED << target_os, target_pointer_width, valueVars, opened, fd,
                    openFds, ret, nOpen >>

\* ioctl(fd, request, &mut block_size): the driver writes the u64 in
\* place; a failing call may or may not have touched the buffer.
WideQuery(t) ==
    \/ \E a \in WideAnswers : Queried(t, 0, a, errno[t])
    \/ \E e \in IoctlErrnos, b \in { block_size[t], U64(512) } : Queried(t, -1, b, e)

\* ioctl(fd, BLKSSZGET, &mut block_size)
IoctlLinux(t) == target_os = "linux" /\ WideQuery(t)

\* ioctl(fd, DIOCGSECTORSIZE, &mut block_size)
IoctlBsd(t) == target_os = "bsd" /\ WideQuery(t)

\* ioctl(fd, DKIOCGETBLOCKSIZE, &mut block_size_u32); block_size is
\* assigned the widened u32 only when the call returned 0.
IoctlMacos(t) ==
    /\ target_os = "macos"
    /\ \/ \E block_size_u32 \in NarrowAnswers :
              Queried(t, 0, WidenTo(block_size_u32, 64), errno[t])
       \/ \E e \in IoctlErrnos, block_size_u32 \in { U32(0), U32(512) } :
              Queried(t, -1, block_size[t], e)

\* ioctl(fd, DKIOCGMEDIAINFO, &mut minfo) on a dk_minfo record; only
\* dki_lbsize is read, and only when the call returned 0.
IoctlSolaris(t) ==
    /\ target_os = "solaris"
    /\ \/ \E lb \in NarrowAnswers, media \in { U32(0), U32(2) } :
           LET minfo == [dki_media_type |-> media, dki_lbsize |-> lb,
                         dki_capacity |-> U64(1024)]
           IN  Queried(t, 0, WidenTo(minfo.dki_lbsize, 64), errno[t])
       \/ \E e \in IoctlErrnos : Queried(t, -1, block_size[t], e)

\* if result == -1 { return Err(..) }  match block_size { .. }  and the
\* drop of `file` that ends either path.
Return(t) ==
    /\ pc[t] = "queried"
    /\ ret' = [ret EXCEPT ![t] = ReturnValue(result[t], block_size[t], errno[t])]
    /\ openFds' = FdsAfterReturn(result[t], openFds, fd[t])
    /\ fd' = [fd EXCEPT ![t] = -1]
    /\ pc' = [pc EXCEPT ![t] = "returned"]
    /\ UNCHANGED << target_os, target_pointer_width, valueVars, opened,
                    block_size, result, errno, nOpen, nIoctl >>

\* ------------------------------------------------------------------------
\* Specifications
\* ------------------------------------------------------------------------

InitValues ==
    /\ held = [s \in Slots |-> Held("const", DEFAULT_SECTOR_SIZE)]
    /\ call = [op |-> "none"]

InitProbe ==
    /\ pc = [t \in Threads |-> "idle"]
    /\ opened = [t \in Threads |-> FALSE]
    /\ fd = [t \in Threads |-> -1]
    /\ openFds = { }
    /\ block_size = [t \in Threads |-> U64(0)]
    /\ result = [t \in Threads |-> 0]
    /\ errno = [t \in Threads |-> "0"]
    /\ ret = [t \in Threads |-> [tag |-> "None"]]
    /\ nOpen = [t \in Threads |-> 0]
    /\ nIoctl = [t \in Threads |-> 0]

\* The probe, on each platform family.  get_block_size reads no usize, so
\* one pointer width stands for all.
Init ==
    /\ target_os \in OsFamilies
    /\ target_pointer_width = 64
    /\ InitValues
    /\ InitProbe

Next ==
    \E t \in Threads :
        \/ Open(t)
        \/ IoctlLinux(t)
        \/ IoctlBsd(t)
        \/ IoctlMacos(t)
        \/ IoctlSolaris(t)
        \/ Return(t)

Spec == Init /\ [][Next]_vars

\* The value type, on 32-bit and 64-bit targets.  Its functions read no
\* cfg(target_os), so one platform family stands for all.
InitValue ==
    /\ target_os = "linux"
    /\ target_pointer_width \in { 32, 64 }
    /\ InitValues
    /\ InitProbe

NextValue ==
    \/ \E s \in Slots :
        \/ \E u \in Inputs : TryFromCall(s, u)
        \/ \E v \in Literals : Construct(s, v)
        \/ UseDefault(s)
        \/ AsUsizeCall(s)
        \/ AsU64Call(s)
        \/ U64FromCall(s)
        \/ UsizeFromCall(s)
        \/ FmtCall(s)
    \/ EqCall

ValueSpec == InitValue /\ [][NextValue]_vars

\* ------------------------------------------------------------------------
\* Properties
\* ------------------------------------------------------------------------

\* 512 <= u <= 2^32, the range the documentation gives for a sector size,
\* written out independently of the constructor's pattern.
InDocumentedRange(u) == ULeq(U64(512), u) /\ ULeq(u, << 0, 0, 1, 0 >>)

\* The u64 a decimal text denotes (what str::parse::<u64> reads),
\* used to read a number back out of a rendered text.
RECURSIVE ParseDecimal(_)
ParseDecimal(ds) ==
    IF Len(ds) = 0 THEN U64(0)
    ELSE UMulAdd(ParseDecimal(SubSeq(ds, 1, Len(ds) - 1)), 10, ds[Len(ds)])

\* Thread t has returned from an invocation whose open succeeded and whose
\* control query ended with status res.
ReturnedAfterQuery(t, res) ==
    pc[t] = "returned" /\ opened[t] /\ nIoctl[t] = 1 /\ result[t] = res

\* Thread t holds an open device handle.
InCall(t) == pc[t] \in { "opened", "queried" }

\* C1: when the control query succeeds with a byte count outside
\* [512, 2^32], get_block_size returns an InvalidInput error and never a
\* LogicalBlockSize carrying that count.
C1_OutOfRangeAnswerRejected ==
    \A t \in Threads :
        (ReturnedAfterQuery(t, 0) /\ ~InDocumentedRange(block_size[t]))
            => (ret[t].tag = "Err" /\ ret[t].err.kind = "InvalidInput")

\* C2: every LogicalBlockSize produced by try_from, by get_block_size or
\* by DEFAULT_SECTOR_SIZE has as_u64() in [512, 2^32].
C2_MagnitudeAlwaysInRange ==
    /\ \A t \in Threads :
           ret[t].tag = "Ok" => InDocumentedRange(as_u64(ret[t].val))
    /\ \A s \in Slots :
           held[s].origin # "literal" => InDocumentedRange(as_u64(held[s].val))

\* C3: two LogicalBlockSize values compare equal exactly when their
\* magnitudes are equal, whatever their variants, and values of equal
\* magnitude render the same text.
C3_EqualIffSameMagnitude ==
    /\ \A a, b \in Slots :
           /\ DerivedEq(held[a].val, held[b].val)
                  <=> (as_u64(held[a].val) = as_u64(held[b].val))
           /\ as_u64(held[a].val) = as_u64(held[b].val)
                  => fmt(held[a].val) = fmt(held[b].val)
    /\ call.op = "eq" => (call.out <=> (as_u64(call.arg[1]) = as_u64(call.arg[2])))

\* C4: for every u in [512, 2^32], try_from(u) succeeds, as_u64 and
\* u64::from of the result give back u, 512 yields Lb512, 4096 yields
\* Lb4096 and every other u yields Other(u).
C4_TryFromRoundTrip ==
    (call.op = "try_from" /\ InDocumentedRange(call.arg)) =>
        /\ call.out.tag = "Ok"
        /\ as_u64(call.out.val) = call.arg
        /\ u64_from(call.out.val) = call.arg
        /\ call.out.val = IF call.arg = U64(512) THEN Lb512
                          ELSE IF call.arg = U64(4096) THEN Lb4096
                          ELSE Other(call.arg)

\* try_from was applied to 2^32, the upper end of the range, and succeeded.
C4_Witness ==
    /\ call.op = "try_from"
    /\ call.arg = << 0, 0, 1, 0 >>
    /\ call.out.tag = "Ok"
    /\ \E s \in Slots : held[s] = Held("try_from", Other(<< 0, 0, 1, 0 >>))

\* C5: for every u below 512 or above 2^32, try_from(u) fails with an
\* InvalidInput error whose message holds the decimal text of u.
C5_TryFromRejects ==
    (call.op = "try_from" /\ ~InDocumentedRange(call.arg)) =>
        /\ call.out.tag = "Err"
        /\ call.out.err.kind = "InvalidInput"
        /\ ParseDecimal(call.out.err.message[2]) = call.arg
        /\ call.out.err.message[2][1] # 0 \/ call.arg = U64(0)

\* try_from was applied to 2^32 + 1 and refused it, naming 4294967297.
C5_Witness ==
    /\ call.op = "try_from"
    /\ call.arg = << 1, 0, 1, 0 >>
    /\ call.out.tag = "Err"
    /\ call.out.err.message[2] = << 4, 2, 9, 4, 9, 6, 7, 2, 9, 7 >>

\* C6: when the control query fails, get_block_size returns GptError::Io
\* built from the errno the query left, and no LogicalBlockSize, whatever
\* the buffer holds.
C6_FailedQueryIsIoError ==
    \A t \in Threads :
        ReturnedAfterQuery(t, -1) =>
            /\ ret[t].tag = "Err"
            /\ ret[t].err = IoError(errno[t])
            /\ errno[t] \in IoctlErrnos

\* A query failed after the driver had written 512 into the buffer, and
\* the call returned the Io error.
C6_Witness ==
    \E t \in Threads :
        /\ ReturnedAfterQuery(t, -1)
        /\ block_size[t] = U64(512)
        /\ ret[t] = Err(IoError("ENOTTY"))

\* C7: the open descriptors are exactly those of the invocations still
\* running, no two invocations share one, and none is left once every
\* invocation has returned.
C7_NoDescriptorLeak ==
    /\ openFds = { fd[t] : t \in { u \in Threads : InCall(u) } }
    /\ \A t, u \in Threads : (InCall(t) /\ InCall(u) /\ t # u) => fd[t] # fd[u]
    /\ (\A t \in Threads : ~InCall(t)) => openFds = { }

\* Every thread has returned, one after a failed query and one with a
\* value, and no descriptor is open.
C7_Witness ==
    /\ \A t \in Threads : pc[t] = "returned"
    /\ \E t \in Threads : ReturnedAfterQuery(t, -1)
    /\ \E t \in Threads : ReturnedAfterQuery(t, 0)
    /\ openFds = { }

\* C8: an invocation opens the device once; if the open fails it returns
\* the error with no control query; otherwise it issues one control query,
\* while the handle is open, and never a second one.
C8_OneOpenOneQuery ==
    \A t \in Threads :
        /\ pc[t] = "idle" => (nOpen[t] = 0 /\ nIoctl[t] = 0)
        /\ pc[t] = "opened" =>
               (nOpen[t] = 1 /\ nIoctl[t] = 0 /\ opened[t] /\ fd[t] \in openFds)
        /\ pc[t] = "queried" =>
               (nOpen[t] = 1 /\ nIoctl[t] = 1 /\ opened[t] /\ fd[t] \in openFds)
        /\ pc[t] = "returned" =>
               /\ nOpen[t] = 1
               /\ opened[t] => nIoctl[t] = 1
               /\ ~opened[t] =>
                      (nIoctl[t] = 0 /\ ret[t].tag = "Err" /\ ret[t].err.kind = "Io")

\* One invocation returned after a failed open and another after a failed
\* query.
C8_Witness ==
    \E t, u \in Threads :
        /\ pc[t] = "returned" /\ ~opened[t] /\ ret[t] = Err(IoError("ENOENT"))
        /\ ReturnedAfterQuery(u, -1)

\* C9: as_usize and usize::from give the magnitude unchanged for every
\* magnitude in [512, 2^32], on every pointer width.
C9_UsizeLossless ==
    (call.op \in { "as_usize", "usize_from" } /\ InDocumentedRange(as_u64(call.arg)))
        => WidenTo(call.out, 64) = as_u64(call.arg)

\* C10: a successful query reporting r in [512, 2^32] makes get_block_size
\* return what try_from(r) returns: Lb512, Lb4096 or Other(r), never
\* Other(512) or Other(4096); on the 32-bit strategies r is the
\* zero-extended 32-bit field.
C10_ProbeAgreesWithTryFrom ==
    \A t \in Threads :
        (ReturnedAfterQuery(t, 0) /\ InDocumentedRange(block_size[t])) =>
            /\ ret[t] = try_from(block_size[t])
            /\ as_u64(ret[t].val) = block_size[t]
            /\ ret[t].val \notin { Other(U64(512)), Other(U64(4096)) }
            /\ target_os \in { "macos", "solaris" } =>
                   (block_size[t][3] = 0 /\ block_size[t][4] = 0)

\* Two probes on a 32-bit strategy: 4096 gave Lb4096, 8192 gave
\* Other(8192).
C10_Witness ==
    /\ target_os = "macos"
    /\ \E t, u \in Threads :
           /\ ReturnedAfterQuery(t, 0) /\ block_size[t] = U64(4096) /\ ret[t] = Ok(Lb4096)
           /\ ReturnedAfterQuery(u, 0) /\ ret[u] = Ok(Other(U64(8192)))

====
